---- MODULE Spec2Model ----
(***************************************************************************)
(* Model of rtmp_exporter's rtmpstats package: decoding of the rtmp_stat   *)
(* page into Stats, the two mutators of mutations.go (WithStreamMapper,    *)
(* WithClientMapper), Client.Add, and Unmarshal's mutator pipeline; and of *)
(* the exporter's Collect, which turns the Stats of a scrape into samples. *)
(***************************************************************************)
EXTENDS Integers, Sequences, FiniteSets, TLC

\* ------------------------------------------------------------------ bounds

\* Longest document, counted in application, stream and client elements.
MaxElements == 5
\* Longest mutator list handed to Unmarshal.
MaxMuts == 2

\* ------------------------------------------------------------ time package

\* Durations are counted in milliseconds: every duration of the program is a
\* whole number of milliseconds (Duration.UnmarshalXML builds them from an int).
Millisecond == 1
Second == 1000

\* A nil error.
Nil == <<>>

\* A time.Time in UTC.
Instant(y, mo, d, h, mi, sec) ==
    [year |-> y, month |-> mo, day |-> d, hour |-> h, minute |-> mi,
     second |-> sec, loc |-> "UTC"]

\* var t time.Time
ZeroTime == Instant(1, 1, 1, 0, 0, 0)

\* time.Parse("Jan _2 2006 15:04:05", text) on the texts a <built> element
\* carries here: the instant for a text of that layout, an error for the others.
ParseTime(text) ==
    CASE text = "Jul 11 2020 22:03:37" ->
             [t |-> Instant(2020, 7, 11, 22, 3, 37), err |-> Nil]
      [] text = "Jan  2 2006 15:04:05" ->
             [t |-> Instant(2006, 1, 2, 15, 4, 5), err |-> Nil]
      [] OTHER -> [t |-> ZeroTime, err |-> <<"parsing time", text>>]

\* ------------------------------------------------------------- wire format

StreamNames == {"stream_a", "stream_b", "STREAM_A", "STREAM_B", "whoops"}
WireStreamNames == {"stream_a", "stream_b"}
ClientIDs == {"sum_a", "other_a", "sum_b", "sum"}

\* A flag element (<active>, <publishing>) is either missing from its parent
\* or present with some text content; <active/> has the content "".
NoTag == "no tag"

\* <client> elements as the page carries them.
WireClientA ==
    [id |-> "sum_a", address |-> "127.0.0.1", time |-> 60, flashver |-> "1",
     pageurl |-> "http://localhost/watch", swfurl |-> "https://swf",
     dropped |-> 150, avsync |-> -12, timestamp |-> 1,
     active |-> NoTag, publishing |-> NoTag]

WireClientOther ==
    [id |-> "other_a", address |-> "1.1.1.1", time |-> 60, flashver |-> "2",
     pageurl |-> "http://other.localhost/watch", swfurl |-> "https://swf2",
     dropped |-> 0, avsync |-> 0, timestamp |-> 60,
     active |-> NoTag, publishing |-> ""]

WireClientB ==
    [id |-> "sum_b", address |-> "127.0.0.2", time |-> 1, flashver |-> "1.1",
     pageurl |-> "http://localhost/watch-also", swfurl |-> "https://swf/1",
     dropped |-> 100, avsync |-> -12, timestamp |-> 60,
     active |-> "false", publishing |-> "0"]

WireClients == {WireClientA, WireClientOther, WireClientB}

\* <stream> elements (without their clients), one per wire name.
WireStream(n) ==
    [name |-> n,
     time |-> IF n = "stream_a" THEN 500 ELSE 7,
     bw_in |-> 2333, bw_out |-> 6999, bytes_in |-> 1297, bytes_out |-> 2389,
     bw_video |-> 2226, bw_audio |-> 106,
     nclients |-> IF n = "stream_a" THEN 4 ELSE 0,
     publishing |-> IF n = "stream_a" THEN "" ELSE NoTag,
     active |-> IF n = "stream_a" THEN "false" ELSE NoTag,
     width |-> 1920, height |-> 1080, frame_rate |-> 30, vcodec |-> "H264",
     vprofile |-> "High", compat |-> 0, level |-> 4,
     acodec |-> "AAC", aprofile |-> "LC", channels |-> 2, sample_rate |-> 44100]

\* The elements of a document, in document order.
Elements ==
    {[tag |-> "application", name |-> "live"]}
    \cup {[tag |-> "stream", rec |-> WireStream(n)] : n \in WireStreamNames}
    \cup {[tag |-> "client", rec |-> c] : c \in WireClients}

\* Scalar fields of the root element.
WireServer ==
    [nginx_version |-> "1.19.0", nginx_rtmp_version |-> "1.1.4",
     compiler |-> "gcc 9.3.0", built |-> "Jul 11 2020 22:03:37", pid |-> 13,
     uptime |-> 93879, naccepted |-> 11, bw_in |-> 2338, bw_out |-> 7016,
     bytes_in |-> 1300, bytes_out |-> 2394]

SeqsUpTo(S, n) == UNION {[1..k -> S] : k \in 0..n}

\* A stream element lies inside an application, a client inside a stream.
RECURSIVE WellNested(_, _, _)
WellNested(els, k, inStream) ==
    IF k > Len(els) THEN TRUE
    ELSE CASE els[k].tag = "application" -> WellNested(els, k + 1, FALSE)
           [] els[k].tag = "stream" -> k > 1 /\ WellNested(els, k + 1, TRUE)
           [] els[k].tag = "client" -> inStream /\ WellNested(els, k + 1, TRUE)

\* What is wrong with the text of a page: nothing, or
\*   "uptime"    the root's <uptime> is not an integer,
\*   "time"      the <time> of a stream element is not an integer,
\*   "timestamp" the <timestamp> of a client element is not an integer,
\*   "syntax"    the page is not well-formed XML (it ends before its root does).
Faults == {"none", "uptime", "time", "timestamp", "syntax"}

\* The well-formed pages.
Docs ==
    {[server |-> WireServer, elements |-> els, fault |-> "none"] :
        els \in {e \in SeqsUpTo(Elements, MaxElements) :
                    (e = <<>> \/ e[1].tag = "application") /\ WellNested(e, 1, FALSE)}}

\* ---------------------------------------------------------------- decoding

\* Duration.UnmarshalXML: an integer of milliseconds.
DecodeDuration(ms) == Millisecond * ms

\* A Boolean that reads the content of its tag as a truth value.
DecodeBooleanFromContent(tag) == tag \notin {NoTag, "false", "0"}

\* Boolean.UnmarshalXML runs when the tag is present and sets true before it
\* consumes the element; a field whose tag is missing keeps its zero value.
DecodeBoolean(tag) == IF tag = NoTag THEN FALSE ELSE TRUE

\* Client.UnmarshalXML without its c.EntriesCount = 1.
DecodeClientZeroCount(c) ==
    [ID |-> c.id, Address |-> c.address, Uptime |-> DecodeDuration(c.time),
     FlashVersion |-> c.flashver, PageURL |-> c.pageurl, SWFURL |-> c.swfurl,
     DroppedFrames |-> c.dropped, AVSync |-> c.avsync,
     Timestamp |-> DecodeDuration(c.timestamp),
     Active |-> DecodeBoolean(c.active),
     Publishing |-> DecodeBoolean(c.publishing),
     EntriesCount |-> 0]

\* Client.UnmarshalXML
DecodeClient(c) ==
    [ID |-> c.id, Address |-> c.address, Uptime |-> DecodeDuration(c.time),
     FlashVersion |-> c.flashver, PageURL |-> c.pageurl, SWFURL |-> c.swfurl,
     DroppedFrames |-> c.dropped, AVSync |-> c.avsync,
     Timestamp |-> DecodeDuration(c.timestamp),
     Active |-> DecodeBoolean(c.active),
     Publishing |-> DecodeBoolean(c.publishing),
     EntriesCount |-> 1]

\* Stream.UnmarshalXML, before its client elements are read.
DecodeStream(s) ==
    [Name |-> s.name, Uptime |-> DecodeDuration(s.time),
     BitrateIn |-> s.bw_in, BitrateOut |-> s.bw_out,
     BytesIn |-> s.bytes_in, BytesOut |-> s.bytes_out,
     BitrateVideo |-> s.bw_video, BitrateAudio |-> s.bw_audio,
     NumClients |-> s.nclients,
     Publishing |-> DecodeBoolean(s.publishing), Active |-> DecodeBoolean(s.active),
     VideoWidth |-> s.width, VideoHeight |-> s.height,
     VideoFramerate |-> s.frame_rate, VideoCodec |-> s.vcodec,
     VideoProfile |-> s.vprofile, VideoCompat |-> s.compat, VideoLevel |-> s.level,
     AudioCodec |-> s.acodec, AudioProfile |-> s.aprofile,
     AudioChannels |-> s.channels, AudioSampleRate |-> s.sample_rate,
     Clients |-> <<>>]

\* The application, stream and client elements nest into
\* Applications -> Streams -> Clients in document order.
RECURSIVE DecodeElements(_, _, _)
DecodeElements(els, k, apps) ==
    IF k > Len(els) THEN apps
    ELSE LET e == els[k]
             a == Len(apps)
         IN CASE e.tag = "application" ->
                   DecodeElements(els, k + 1,
                       Append(apps, [Name |-> e.name, Streams |-> <<>>]))
              [] e.tag = "stream" ->
                   DecodeElements(els, k + 1,
                       [apps EXCEPT ![a].Streams = Append(@, DecodeStream(e.rec))])
              [] e.tag = "client" ->
                   LET s == Len(apps[a].Streams)
                   IN DecodeElements(els, k + 1,
                       [apps EXCEPT ![a].Streams[s].Clients =
                                        Append(@, DecodeClient(e.rec))])

\* Stats.UnmarshalXML taking <uptime> for milliseconds and dropping the
\* fraction of a second.
DecodeUptimeFromMilliseconds(d) ==
    [NGINXVersion |-> d.server.nginx_version,
     NGINXRTMPVersion |-> d.server.nginx_rtmp_version,
     Compiler |-> d.server.compiler,
     Built |-> ParseTime(d.server.built).t,
     PID |-> d.server.pid,
     Uptime |-> (DecodeDuration(d.server.uptime) \div Second) * Second,
     Accepted |-> d.server.naccepted,
     BitrateIn |-> d.server.bw_in, BitrateOut |-> d.server.bw_out,
     BytesIn |-> d.server.bytes_in, BytesOut |-> d.server.bytes_out,
     Applications |-> DecodeElements(d.elements, 1, <<>>)]

\* Stats.UnmarshalXML
Decode(d) ==
    [NGINXVersion |-> d.server.nginx_version,
     NGINXRTMPVersion |-> d.server.nginx_rtmp_version,
     Compiler |-> d.server.compiler,
     Built |-> ParseTime(d.server.built).t,
     PID |-> d.server.pid,
     Uptime |-> (DecodeDuration(d.server.uptime) \div Millisecond) * Second,
     Accepted |-> d.server.naccepted,
     BitrateIn |-> d.server.bw_in, BitrateOut |-> d.server.bw_out,
     BytesIn |-> d.server.bytes_in, BytesOut |-> d.server.bytes_out,
     Applications |-> DecodeElements(d.elements, 1, <<>>)]

\* var s Stats
ZeroStats ==
    [NGINXVersion |-> "", NGINXRTMPVersion |-> "", Compiler |-> "",
     Built |-> ZeroTime,
     PID |-> 0, Uptime |-> 0, Accepted |-> 0, BitrateIn |-> 0, BitrateOut |-> 0,
     BytesIn |-> 0, BytesOut |-> 0, Applications |-> <<>>]

HasElement(d, tag) == \E k \in DOMAIN d.elements : d.elements[k].tag = tag

\* The error of dec.Decode(&s): that of the first field, in page order, whose
\* text its adapter rejects, or the decoder's own for a page that is not XML.
DecodeError(d) ==
    CASE ParseTime(d.server.built).err # Nil -> ParseTime(d.server.built).err
      [] d.fault = "uptime" -> <<"strconv.ParseInt: invalid syntax", "uptime">>
      [] d.fault = "time" /\ HasElement(d, "stream") ->
             <<"strconv.ParseInt: invalid syntax", "time">>
      [] d.fault = "timestamp" /\ HasElement(d, "client") ->
             <<"strconv.ParseInt: invalid syntax", "timestamp">>
      [] d.fault = "syntax" -> <<"XML syntax error", "unexpected EOF">>
      [] OTHER -> Nil

\* dec.Decode(&s): Stats.UnmarshalXML assigns *s only when every field decoded.
DecodeDocument(d) ==
    LET e == DecodeError(d)
    IN [s |-> IF e = Nil THEN Decode(d) ELSE ZeroStats, err |-> e]

\* Pages whose root fields vary: <uptime> values, <built> texts and faults, over
\* a few bodies.
WireUptimes == {0, 1, 999, 1000, 1500, 93879}
BuiltTexts == {"Jul 11 2020 22:03:37", "Jan  2 2006 15:04:05", "2020-07-11T22:03:37Z"}
Bodies ==
    {<<>>,
     <<[tag |-> "application", name |-> "live"]>>,
     <<[tag |-> "application", name |-> "live"],
       [tag |-> "stream", rec |-> WireStream("stream_a")],
       [tag |-> "client", rec |-> WireClientA]>>,
     <<[tag |-> "application", name |-> "live"],
       [tag |-> "stream", rec |-> WireStream("stream_a")],
       [tag |-> "stream", rec |-> WireStream("stream_b")]>>,
     <<[tag |-> "application", name |-> "live"],
       [tag |-> "stream", rec |-> WireStream("stream_a")],
       [tag |-> "client", rec |-> WireClientOther],
       [tag |-> "client", rec |-> WireClientB]>>}

DecodeDocs ==
    {[server |-> [WireServer EXCEPT !.uptime = u, !.built = b],
      elements |-> els, fault |-> f] :
        u \in WireUptimes, b \in BuiltTexts, els \in Bodies, f \in Faults}

\* ---------------------------------------------------------------- errors

\* fmt.Errorf("a stream with the name %s already exists", name)
Errorf(name) == <<"a stream with the name %s already exists", name>>

\* --------------------------------------------------------------- Client.Add

\* Client.Add that copies every value but the counters from the source client.
ClientAddKeepFirst(c, other) ==
    [c EXCEPT !.DroppedFrames = c.DroppedFrames + other.DroppedFrames,
              !.EntriesCount = c.EntriesCount + other.EntriesCount]

\* Client.Add that overwrites DroppedFrames instead of summing.
ClientAddOverwriteDropped(c, other) ==
    [c EXCEPT !.Uptime = IF other.Uptime > @ THEN other.Uptime ELSE @,
              !.DroppedFrames = other.DroppedFrames,
              !.Timestamp = IF other.Timestamp > @ THEN other.Timestamp ELSE @,
              !.Active = @ \/ other.Active,
              !.Publishing = @ \/ other.Publishing,
              !.EntriesCount = @ + other.EntriesCount]

\* Client.Add that takes the Publishing flag of the client added last.
ClientAddPublishingOfLast(c, other) ==
    LET uptime == IF other.Uptime > c.Uptime THEN other.Uptime ELSE c.Uptime
        timestamp == IF other.Timestamp > c.Timestamp THEN other.Timestamp
                     ELSE c.Timestamp
    IN [ID |-> c.ID, Address |-> c.Address, Uptime |-> uptime,
        FlashVersion |-> c.FlashVersion, PageURL |-> c.PageURL,
        SWFURL |-> c.SWFURL,
        DroppedFrames |-> c.DroppedFrames + other.DroppedFrames,
        AVSync |-> c.AVSync, Timestamp |-> timestamp,
        Active |-> (c.Active \/ other.Active),
        Publishing |-> other.Publishing,
        EntriesCount |-> c.EntriesCount + other.EntriesCount]

ClientAdd(c, other) ==
    LET uptime == IF other.Uptime > c.Uptime THEN other.Uptime ELSE c.Uptime
        timestamp == IF other.Timestamp > c.Timestamp THEN other.Timestamp
                     ELSE c.Timestamp
    IN [ID |-> c.ID, Address |-> c.Address, Uptime |-> uptime,
        FlashVersion |-> c.FlashVersion, PageURL |-> c.PageURL,
        SWFURL |-> c.SWFURL,
        DroppedFrames |-> c.DroppedFrames + other.DroppedFrames,
        AVSync |-> c.AVSync, Timestamp |-> timestamp,
        Active |-> (c.Active \/ other.Active),
        Publishing |-> (c.Publishing \/ other.Publishing),
        EntriesCount |-> c.EntriesCount + other.EntriesCount]

\* --------------------------------------------------------- WithClientMapper

\* The client loop without its lookup: every client is appended.
AggregateClientNoLookup(aggregated, clientLookup, client) ==
    [aggregated |-> Append(aggregated, client), clientLookup |-> clientLookup]

\* One round of the client loop after the identifier was mapped: a first
\* occurrence is appended and remembered in clientLookup, a later one is added
\* to the entry it collides with.
AggregateClient(aggregated, clientLookup, client) ==
    IF client.ID \notin DOMAIN clientLookup
    THEN [aggregated |-> Append(aggregated, client),
          clientLookup |-> clientLookup @@ (client.ID :> Len(aggregated) + 1)]
    ELSE [aggregated |-> [aggregated EXCEPT ![clientLookup[client.ID]] =
                                                ClientAdd(@, client)],
          clientLookup |-> clientLookup]

\* The loop over stream.Clients.
RECURSIVE AggregateClients(_, _, _, _, _, _)
AggregateClients(mapper, streamName, clients, k, aggregated, clientLookup) ==
    IF k > Len(clients) THEN aggregated
    ELSE LET client == [clients[k] EXCEPT !.ID = mapper[<<streamName, @>>]]
             r == AggregateClient(aggregated, clientLookup, client)
         IN AggregateClients(mapper, streamName, clients, k + 1,
                             r.aggregated, r.clientLookup)

\* WithClientMapper that also sets NumClients to the length of the new list.
WithClientMapperRecount(mapper, s) ==
    [s |-> [s EXCEPT !.Applications =
              [appIdx \in DOMAIN s.Applications |->
                 [s.Applications[appIdx] EXCEPT !.Streams =
                    [streamIdx \in DOMAIN s.Applications[appIdx].Streams |->
                       LET stream == s.Applications[appIdx].Streams[streamIdx]
                           aggregated ==
                               AggregateClients(mapper, stream.Name, stream.Clients,
                                                1, <<>>, <<>>)
                       IN [stream EXCEPT !.Clients = aggregated,
                                         !.NumClients = Len(aggregated)]]]]],
     err |-> Nil]

WithClientMapper(mapper, s) ==
    [s |-> [s EXCEPT !.Applications =
              [appIdx \in DOMAIN s.Applications |->
                 [s.Applications[appIdx] EXCEPT !.Streams =
                    [streamIdx \in DOMAIN s.Applications[appIdx].Streams |->
                       LET stream == s.Applications[appIdx].Streams[streamIdx]
                       IN [stream EXCEPT !.Clients =
                             AggregateClients(mapper, stream.Name, stream.Clients,
                                              1, <<>>, <<>>)]]]]],
     err |-> Nil]

\* --------------------------------------------------------- WithStreamMapper

\* The stream loop appending the stream as it was, not the renamed copy.
RECURSIVE TransformStreamsKeepName(_, _, _, _, _)
TransformStreamsKeepName(mapper, streams, k, transformed, streamLookup) ==
    IF k > Len(streams) THEN [transformed |-> transformed, err |-> Nil]
    ELSE LET stream == [streams[k] EXCEPT !.Name = mapper[@]]
         IN IF stream.Name \in streamLookup
            THEN [transformed |-> transformed, err |-> Errorf(stream.Name)]
            ELSE TransformStreamsKeepName(mapper, streams, k + 1,
                                          Append(transformed, streams[k]),
                                          streamLookup \cup {stream.Name})

\* The stream loop without the check for a name seen before.
TransformStreamsNoCheck(mapper, streams, k, transformed, streamLookup) ==
    [transformed |-> [j \in DOMAIN streams |-> [streams[j] EXCEPT !.Name = mapper[@]]],
     err |-> Nil]

\* The loop over app.Streams: the renamed copies are collected in transformed;
\* a name seen before ends the mutator with an error.
RECURSIVE TransformStreams(_, _, _, _, _)
TransformStreams(mapper, streams, k, transformed, streamLookup) ==
    IF k > Len(streams) THEN [transformed |-> transformed, err |-> Nil]
    ELSE LET stream == [streams[k] EXCEPT !.Name = mapper[@]]
         IN IF stream.Name \in streamLookup
            THEN [transformed |-> transformed, err |-> Errorf(stream.Name)]
            ELSE TransformStreams(mapper, streams, k + 1,
                                  Append(transformed, stream),
                                  streamLookup \cup {stream.Name})

\* The application loop renaming the streams in place: up to the duplicate the
\* streams of the failing application are renamed too.
RECURSIVE StreamMapperLoopInPlace(_, _, _)
StreamMapperLoopInPlace(mapper, s, i) ==
    IF i > Len(s.Applications) THEN [s |-> s, err |-> Nil]
    ELSE LET streams == s.Applications[i].Streams
             r == TransformStreams(mapper, streams, 1, <<>>, {})
             n == Len(r.transformed) + 1
             renamed == [j \in DOMAIN streams |->
                            IF j <= n THEN [streams[j] EXCEPT !.Name = mapper[@]]
                            ELSE streams[j]]
         IN IF r.err # Nil
            THEN [s |-> [s EXCEPT !.Applications[i].Streams = renamed], err |-> r.err]
            ELSE StreamMapperLoopInPlace(mapper,
                     [s EXCEPT !.Applications[i].Streams = r.transformed], i + 1)

\* The application loop with one streamLookup for all applications.
RECURSIVE StreamMapperLoopSharedLookup(_, _, _)
StreamMapperLoopSharedLookup(mapper, s, i) ==
    IF i > Len(s.Applications) THEN [s |-> s, err |-> Nil]
    ELSE LET seen == UNION {{s.Applications[h].Streams[j].Name :
                                  j \in DOMAIN s.Applications[h].Streams} :
                               h \in 1..(i - 1)}
             r == TransformStreams(mapper, s.Applications[i].Streams, 1, <<>>, seen)
         IN IF r.err # Nil
            THEN [s |-> s, err |-> r.err]
            ELSE StreamMapperLoopSharedLookup(mapper,
                     [s EXCEPT !.Applications[i].Streams = r.transformed], i + 1)

\* The loop over s.Applications: each application's streams are replaced as
\* soon as its own loop has ended without an error.
RECURSIVE StreamMapperLoop(_, _, _)
StreamMapperLoop(mapper, s, i) ==
    IF i > Len(s.Applications) THEN [s |-> s, err |-> Nil]
    ELSE LET r == TransformStreams(mapper, s.Applications[i].Streams, 1, <<>>, {})
         IN IF r.err # Nil
            THEN [s |-> s, err |-> r.err]
            ELSE StreamMapperLoop(mapper,
                     [s EXCEPT !.Applications[i].Streams = r.transformed], i + 1)

WithStreamMapper(mapper, s) == StreamMapperLoop(mapper, s, 1)

\* ---------------------------------------------------------------- Unmarshal

\* A Mutator value: which constructor made it, and its mapper.
StreamMutator(mapper) == [kind |-> "WithStreamMapper", mapper |-> mapper]
ClientMutator(mapper) == [kind |-> "WithClientMapper", mapper |-> mapper]

\* mut(&s)
Mutate(mut, s) ==
    IF mut.kind = "WithStreamMapper" THEN WithStreamMapper(mut.mapper, s)
    ELSE WithClientMapper(mut.mapper, s)

\* The mutator loop going on after an error, returning the last result.
RECURSIVE MutatorLoopContinue(_, _, _, _)
MutatorLoopContinue(muts, k, s, calls) ==
    IF k > Len(muts) THEN [s |-> s, err |-> Nil, calls |-> calls]
    ELSE LET r == Mutate(muts[k], s)
         IN IF r.err # Nil /\ k = Len(muts)
            THEN [s |-> r.s, err |-> r.err, calls |-> Append(calls, k)]
            ELSE MutatorLoopContinue(muts, k + 1, r.s, Append(calls, k))

\* The loop running the client mappers of muts before its stream mappers.
RECURSIVE MutatorLoopClientsFirst(_, _, _, _)
MutatorLoopClientsFirst(muts, k, s, calls) ==
    LET ms == SelectSeq(muts, LAMBDA m : m.kind = "WithClientMapper")
              \o SelectSeq(muts, LAMBDA m : m.kind = "WithStreamMapper")
    IN IF k > Len(ms) THEN [s |-> s, err |-> Nil, calls |-> calls]
       ELSE LET r == Mutate(ms[k], s)
            IN IF r.err # Nil
               THEN [s |-> r.s, err |-> r.err, calls |-> Append(calls, k)]
               ELSE MutatorLoopClientsFirst(ms, k + 1, r.s, Append(calls, k))

\* The loop over muts. calls lists the positions of the mutators invoked.
RECURSIVE MutatorLoop(_, _, _, _)
MutatorLoop(muts, k, s, calls) ==
    IF k > Len(muts) THEN [s |-> s, err |-> Nil, calls |-> calls]
    ELSE LET r == Mutate(muts[k], s)
         IN IF r.err # Nil
            THEN [s |-> r.s, err |-> r.err, calls |-> Append(calls, k)]
            ELSE MutatorLoop(muts, k + 1, r.s, Append(calls, k))

\* Unmarshal that goes on to the mutators whatever dec.Decode returned.
UnmarshalUncheckedDecode(d, muts) ==
    LET dec == DecodeDocument(d)
        r == MutatorLoop(muts, 1, dec.s, <<>>)
    IN [ret |-> IF r.err # Nil THEN "nil" ELSE "&s",
        err |-> r.err, s |-> r.s, calls |-> r.calls]

\* Unmarshal that puts the decoded Stats back when a mutator fails.
UnmarshalRollback(d, muts) ==
    LET dec == DecodeDocument(d)
        r == MutatorLoop(muts, 1, dec.s, <<>>)
    IN IF dec.err # Nil
       THEN [ret |-> "nil", err |-> dec.err, s |-> dec.s, calls |-> <<>>]
       ELSE [ret |-> IF r.err # Nil THEN "nil" ELSE "&s",
             err |-> r.err, s |-> IF r.err # Nil THEN dec.s ELSE r.s,
             calls |-> r.calls]

\* ret is "nil" for a nil *Stats and "&s" for the address of the local Stats;
\* s is the local Stats when Unmarshal returns.
Unmarshal(d, muts) ==
    LET dec == DecodeDocument(d)
        r == MutatorLoop(muts, 1, dec.s, <<>>)
    IN IF dec.err # Nil
       THEN [ret |-> "nil", err |-> dec.err, s |-> dec.s, calls |-> <<>>]
       ELSE [ret |-> IF r.err # Nil THEN "nil" ELSE "&s",
             err |-> r.err, s |-> r.s, calls |-> r.calls]

\* ------------------------------------------------------------------ mappers

\* Stream mappers: func(in string) string
ToUpper(n) ==
    CASE n = "stream_a" -> "STREAM_A" [] n = "stream_b" -> "STREAM_B" [] OTHER -> n

SMIdentity == [n \in StreamNames |-> n]
SMUpper == [n \in StreamNames |-> ToUpper(n)]
SMWhoops == [n \in StreamNames |-> "whoops"]

StreamMappers == {SMIdentity, SMUpper, SMWhoops}

\* Client mappers: func(stream string, in string) string
ClientKeys == StreamNames \X ClientIDs
CombineSums(in) == IF in \in {"sum_a", "sum_b"} THEN "sum" ELSE in

CMIdentity == [p \in ClientKeys |-> p[2]]
CMCombineSums == [p \in ClientKeys |-> CombineSums(p[2])]
CMUpperOnly == [p \in ClientKeys |-> IF p[1] = "STREAM_A" THEN "sum" ELSE p[2]]
CMBToOther == [p \in ClientKeys |-> IF p[2] = "sum_b" THEN "other_a" ELSE p[2]]

ClientMappers == {CMIdentity, CMCombineSums, CMUpperOnly, CMBToOther}

\* The mutator lists Unmarshal is called with.
PipelineMutators ==
    {StreamMutator(SMUpper), StreamMutator(SMWhoops), ClientMutator(CMUpperOnly)}
Pipelines == SeqsUpTo(PipelineMutators, MaxMuts)

\* ----------------------------------------------------------------- exporter

\* var publisher rtmpstats.Client
ZeroClient ==
    [ID |-> "", Address |-> "", Uptime |-> 0, FlashVersion |-> "", PageURL |-> "",
     SWFURL |-> "", DroppedFrames |-> 0, AVSync |-> 0, Timestamp |-> 0,
     Active |-> FALSE, Publishing |-> FALSE, EntriesCount |-> 0]

\* The publisher loop without its break: the last publishing client stays.
RECURSIVE PublisherNoBreak(_, _, _)
PublisherNoBreak(clients, k, publisher) ==
    IF k > Len(clients) THEN publisher
    ELSE IF clients[k].Publishing
         THEN PublisherNoBreak(clients, k + 1, clients[k])
         ELSE PublisherNoBreak(clients, k + 1, publisher)

\* for _, cli := range stream.Clients { if cli.Publishing { publisher = cli; break } }
RECURSIVE Publisher(_, _, _)
Publisher(clients, k, publisher) ==
    IF k > Len(clients) THEN publisher
    ELSE IF clients[k].Publishing THEN clients[k]
         ELSE Publisher(clients, k + 1, publisher)

\* float64(n) and Duration.Seconds() as exact fractions.
Float64(n) == [num |-> n, den |-> 1]
Seconds(d) == [num |-> d, den |-> Second]

\* Time.String(), fmt.Sprintf("%d", n) and fmt.Sprintf("%dx%d", w, h): the
\* values a label text is printed from, in the order they are printed.
TimeString(t) == <<t.year, t.month, t.day, t.hour, t.minute, t.second, "+0000", t.loc>>
Itoa(n) == <<"%d", n>>
Resolution(w, h) == <<"%dx%d", w, h>>

\* prometheus.MustNewConstMetric(desc, valueType, value, labelValues...)
Metric(desc, valueType, value, labelValues) ==
    [desc |-> desc, valueType |-> valueType, value |-> value,
     labelValues |-> labelValues]

\* The samples Collect sends for one stream.
StreamMetrics(app, stream) ==
    LET publisher == Publisher(stream.Clients, 1, ZeroClient)
        labels == <<app.Name, stream.Name, publisher.ID>>
    IN <<Metric("streamUptimeSeconds", "Counter", Seconds(stream.Uptime), labels),
         Metric("streamBitrateIn", "Gauge", Float64(stream.BitrateIn), labels),
         Metric("streamBitrateOut", "Gauge", Float64(stream.BitrateOut), labels),
         Metric("streamRxTotal", "Counter", Float64(stream.BytesIn), labels),
         Metric("streamTxTotal", "Counter", Float64(stream.BytesOut), labels),
         Metric("streamClients", "Gauge", Float64(stream.NumClients), labels),
         Metric("streamInfo", "Gauge", Float64(1),
                labels \o <<Resolution(stream.VideoWidth, stream.VideoHeight),
                            Itoa(stream.VideoFramerate), stream.VideoCodec,
                            stream.AudioCodec, Itoa(stream.AudioChannels),
                            Itoa(stream.AudioSampleRate)>>)>>

\* for _, stream := range app.Streams
RECURSIVE AppMetrics(_, _)
AppMetrics(app, j) ==
    IF j > Len(app.Streams) THEN <<>>
    ELSE StreamMetrics(app, app.Streams[j]) \o AppMetrics(app, j + 1)

\* for _, app := range s.Applications
RECURSIVE AppsMetrics(_, _)
AppsMetrics(s, i) ==
    IF i > Len(s.Applications) THEN <<>>
    ELSE AppMetrics(s.Applications[i], 1) \o AppsMetrics(s, i + 1)

\* The samples Collect sends once it has the Stats.
Metrics(s) ==
    <<Metric("nginxBuildInfo", "Gauge", Float64(1),
             <<s.NGINXVersion, s.NGINXRTMPVersion, s.Compiler, TimeString(s.Built)>>),
      Metric("serverBitrateIn", "Gauge", Float64(s.BitrateIn), <<>>),
      Metric("serverBitrateOut", "Gauge", Float64(s.BitrateOut), <<>>),
      Metric("serverRxTotal", "Counter", Float64(s.BytesIn), <<>>),
      Metric("serverTxTotal", "Counter", Float64(s.BytesOut), <<>>)>>
    \o AppsMetrics(s, 1)

\* Exporter.cfg: the page comes from a file when StatsFile is set.
Configs == {[StatsFile |-> "stats.xml", StatsURL |-> ""],
            [StatsFile |-> "", StatsURL |-> "http://localhost/stat"]}

\* The mutator lists an Exporter is made with.
ExporterMutators ==
    {<<>>, <<StreamMutator(SMWhoops)>>, <<ClientMutator(CMCombineSums)>>,
     <<StreamMutator(SMUpper), ClientMutator(CMUpperOnly)>>}

\* New(cfg, logger, mutators...)
New(cfg, mutators) == [cfg |-> cfg, mutators |-> mutators]

\* What a scrape meets on its way to the page: the page in full, no page at
\* all (os.Open or the HTTP request fails), or a page that ends early.
Transfers == {"ok", "failed", "cut"}

\* fmt.Errorf("reading stats: %w", err) and its like
Wrap(msg, e) == <<msg>> \o e

\* getStatsFromFile and getStatsFromURL, chosen by getStats.
getStats(e, transfer, page) ==
    LET body == IF transfer = "cut" THEN [page EXCEPT !.fault = "syntax"] ELSE page
        r == Unmarshal(body, e.mutators)
    IN IF transfer = "failed"
       THEN [ret |-> "nil", s |-> ZeroStats, calls |-> <<>>,
             err |-> IF e.cfg.StatsFile # ""
                     THEN Wrap("opening file: %w", <<"no such file or directory">>)
                     ELSE Wrap("executing request: %w", <<"connection refused">>)]
       ELSE IF r.err # Nil
       THEN [ret |-> "nil", s |-> r.s, calls |-> r.calls,
             err |-> Wrap("reading stats: %w", r.err)]
       ELSE [ret |-> "&s", s |-> r.s, calls |-> r.calls, err |-> Nil]

\* Collect that sends the server samples before it looks at the error.
CollectPartial(e, transfer, page) ==
    LET r == getStats(e, transfer, page)
    IN IF r.err # Nil THEN SubSeq(Metrics(r.s), 1, 5) ELSE Metrics(r.s)

\* Exporter.Collect: the samples sent on ch.
Collect(e, transfer, page) ==
    LET r == getStats(e, transfer, page)
    IN IF r.err # Nil THEN <<>> ELSE Metrics(r.s)

\* -------------------------------------------------------------------- state

VARIABLES
    doc,     \* the page behind the io.Reader
    read,    \* whether the reader was handed to Unmarshal
    stats,   \* the Stats the last operation worked on
    before,  \* that Stats when the operation started (after decoding, for Unmarshal)
    op,      \* the last operation and its argument
    err,     \* the error it returned
    ret,     \* the *Stats the caller holds: "nil", or "&s" when it points to stats
    calls,   \* Unmarshal: the positions of the mutators it invoked
    exporter,\* the Exporter
    ch       \* the samples the last Collect sent on its channel

vars == <<doc, read, stats, before, op, err, ret, calls, exporter, ch>>

\* The Exporter of main.go: no mutators.
MainExporter == New([StatsFile |-> "", StatsURL |-> "http://localhost/stat"], <<>>)

\* A reader on some page; nothing was decoded yet.
Init ==
    /\ doc \in Docs
    /\ read = FALSE
    /\ stats = ZeroStats
    /\ before = ZeroStats
    /\ op = [kind |-> "NewReader", arg |-> <<>>]
    /\ err = Nil
    /\ ret = "nil"
    /\ calls = <<>>
    /\ exporter = MainExporter
    /\ ch = <<>>

\* Unmarshal(r, muts...): the reader is handed over once.
UnmarshalCall ==
    \E muts \in Pipelines :
        LET r == Unmarshal(doc, muts)
        IN /\ ~read
           /\ read' = TRUE
           /\ before' = DecodeDocument(doc).s
           /\ stats' = r.s
           /\ err' = r.err
           /\ ret' = r.ret
           /\ op' = [kind |-> "Unmarshal", arg |-> muts]
           /\ calls' = r.calls
           /\ UNCHANGED <<doc, exporter, ch>>

\* WithStreamMapper(mapper)(s) on the Stats the caller holds.
StreamMapperCall ==
    \E mapper \in StreamMappers :
        LET r == WithStreamMapper(mapper, stats)
        IN /\ ret = "&s"
           /\ before' = stats
           /\ stats' = r.s
           /\ err' = r.err
           /\ ret' = ret
           /\ op' = [kind |-> "WithStreamMapper", arg |-> mapper]
           /\ calls' = <<>>
           /\ UNCHANGED <<doc, read, exporter, ch>>

\* WithClientMapper(mapper)(s) on the Stats the caller holds.
ClientMapperCall ==
    \E mapper \in ClientMappers :
        LET r == WithClientMapper(mapper, stats)
        IN /\ ret = "&s"
           /\ before' = stats
           /\ stats' = r.s
           /\ err' = r.err
           /\ ret' = ret
           /\ op' = [kind |-> "WithClientMapper", arg |-> mapper]
           /\ calls' = <<>>
           /\ UNCHANGED <<doc, read, exporter, ch>>

Next == UnmarshalCall \/ StreamMapperCall \/ ClientMapperCall

Spec == Init /\ [][Next]_vars

\* ------------------------------------------------------------ varied pages

\* A reader on a page that may be malformed; nothing was decoded yet.
InitDecode ==
    /\ doc \in DecodeDocs
    /\ read = FALSE
    /\ stats = ZeroStats
    /\ before = ZeroStats
    /\ op = [kind |-> "NewReader", arg |-> <<>>]
    /\ err = Nil
    /\ ret = "nil"
    /\ calls = <<>>
    /\ exporter = MainExporter
    /\ ch = <<>>

SpecDecode == InitDecode /\ [][Next]_vars

\* ------------------------------------------------------------------ scrapes

\* An Exporter and the page its source serves; nothing was collected yet.
InitCollect ==
    /\ doc \in Docs
    /\ read = FALSE
    /\ stats = ZeroStats
    /\ before = ZeroStats
    /\ op = [kind |-> "New", arg |-> <<>>]
    /\ err = Nil
    /\ ret = "nil"
    /\ calls = <<>>
    /\ exporter \in {New(cfg, muts) : cfg \in Configs, muts \in ExporterMutators}
    /\ ch = <<>>

\* One scrape: Collect(ch) with a fresh channel; every scrape opens the
\* source anew.
CollectCall ==
    \E transfer \in Transfers :
        LET r == getStats(exporter, transfer, doc)
        IN /\ ch' = Collect(exporter, transfer, doc)
           /\ before' = stats
           /\ stats' = r.s
           /\ err' = r.err
           /\ ret' = r.ret
           /\ calls' = r.calls
           /\ op' = [kind |-> "Collect", arg |-> transfer]
           /\ UNCHANGED <<doc, read, exporter>>

NextCollect == CollectCall

SpecCollect == InitCollect /\ [][NextCollect]_vars

\* ------------------------------------------------------- reading the model

\* The (application, stream) positions of a Stats.
StreamPositions(s) ==
    UNION {{<<i, j>> : j \in DOMAIN s.Applications[i].Streams} :
              i \in DOMAIN s.Applications}

StreamAt(s, p) == s.Applications[p[1]].Streams[p[2]]

\* Same number of applications, and of streams in each.
SameShape(s, t) ==
    /\ Len(s.Applications) = Len(t.Applications)
    /\ \A i \in DOMAIN s.Applications :
          Len(s.Applications[i].Streams) = Len(t.Applications[i].Streams)

IDsOf(clients) == [k \in DOMAIN clients |-> clients[k].ID]

\* What the mapper makes of the identifiers of a stream's clients, in order.
MappedIDs(mapper, stream) ==
    [k \in DOMAIN stream.Clients |-> mapper[<<stream.Name, stream.Clients[k].ID>>]]

\* The values of a sequence in the order of their first occurrence.
RECURSIVE FirstOccurrences(_)
FirstOccurrences(ids) ==
    IF ids = <<>> THEN <<>>
    ELSE LET n == Len(ids)
             front == FirstOccurrences(SubSeq(ids, 1, n - 1))
         IN IF \E k \in 1..(n - 1) : ids[k] = ids[n] THEN front
            ELSE Append(front, ids[n])

\* The clients of a stream that the mapper sends to id, in order.
Group(mapper, stream, id) ==
    SelectSeq(stream.Clients, LAMBDA c : mapper[<<stream.Name, c.ID>>] = id)

RECURSIVE SumOf(_, _)
SumOf(clients, field) ==
    IF clients = <<>> THEN 0
    ELSE clients[1][field] + SumOf(Tail(clients), field)

MaxOf(clients, field) ==
    CHOOSE m \in {clients[k][field] : k \in DOMAIN clients} :
        \A k \in DOMAIN clients : clients[k][field] <= m

AnyOf(clients, field) == \E k \in DOMAIN clients : clients[k][field]

AfterClientMapper == op.kind = "WithClientMapper"
AfterStreamMapper == op.kind = "WithStreamMapper"
AfterUnmarshal == op.kind = "Unmarshal"

\* ------------------------------------------------------------------- claims

\* C1: after WithClientMapper every stream holds exactly one client per
\* distinct mapped identifier, in the order in which the identifiers were
\* first produced while the input clients were scanned.
C1_ClientsInFirstSeenOrder ==
    AfterClientMapper =>
        /\ SameShape(stats, before)
        /\ \A p \in StreamPositions(before) :
              LET out == IDsOf(StreamAt(stats, p).Clients)
              IN /\ out = FirstOccurrences(MappedIDs(op.arg, StreamAt(before, p)))
                 /\ \A k, h \in DOMAIN out : k # h => out[k] # out[h]

\* The test's case: sum_a, other_a, sum_b become sum, other_a.
C1_Witness ==
    /\ AfterClientMapper
    /\ \E p \in StreamPositions(before) :
          /\ IDsOf(StreamAt(before, p).Clients) = <<"sum_a", "other_a", "sum_b">>
          /\ IDsOf(StreamAt(stats, p).Clients) = <<"sum", "other_a">>

\* C2: clients of one stream that map to the same identifier are combined into
\* one client that has the new ID and the Address, FlashVersion, PageURL,
\* SWFURL and AVSync of the first of them, the sum of their DroppedFrames, the
\* maximum of their Uptime and of their Timestamp, and the OR of their Active
\* and of their Publishing flags.
C2_MergedClientIsFoldOfAdd ==
    AfterClientMapper =>
        \A p \in StreamPositions(before) :
            \A k \in DOMAIN StreamAt(stats, p).Clients :
                LET out == StreamAt(stats, p).Clients[k]
                    g == Group(op.arg, StreamAt(before, p), out.ID)
                IN Len(g) >= 2 =>
                      /\ out.Address = g[1].Address
                      /\ out.FlashVersion = g[1].FlashVersion
                      /\ out.PageURL = g[1].PageURL
                      /\ out.SWFURL = g[1].SWFURL
                      /\ out.AVSync = g[1].AVSync
                      /\ out.DroppedFrames = SumOf(g, "DroppedFrames")
                      /\ out.Uptime = MaxOf(g, "Uptime")
                      /\ out.Timestamp = MaxOf(g, "Timestamp")
                      /\ out.Active = AnyOf(g, "Active")
                      /\ out.Publishing = AnyOf(g, "Publishing")

\* Three records are merged: the Timestamp and the set flags come from later
\* records, the Uptime is the first one's and larger than a later one's.
C2_Witness ==
    /\ AfterClientMapper
    /\ \E p \in StreamPositions(before) :
          \E k \in DOMAIN StreamAt(stats, p).Clients :
              LET out == StreamAt(stats, p).Clients[k]
                  g == Group(op.arg, StreamAt(before, p), out.ID)
              IN /\ Len(g) = 3
                 /\ out.Timestamp > g[1].Timestamp
                 /\ out.Uptime = g[1].Uptime /\ out.Uptime > g[3].Uptime
                 /\ out.Active /\ ~g[1].Active
                 /\ out.Publishing /\ ~g[1].Publishing
                 /\ out.DroppedFrames > g[1].DroppedFrames

\* C3: a client's EntriesCount is the number of wire records combined into it:
\* 1 for every client right after decoding, the sum of the counts of the
\* clients a mapper merged into it afterwards (so an unmerged client keeps its
\* count), and over a stream the counts add up to the stream's wire records.
C3_EntriesCountCountsWireRecords ==
    /\ (AfterUnmarshal /\ op.arg = <<>>) =>
          \A p \in StreamPositions(stats) :
              \A k \in DOMAIN StreamAt(stats, p).Clients :
                  StreamAt(stats, p).Clients[k].EntriesCount = 1
    /\ AfterClientMapper =>
          \A p \in StreamPositions(before) :
              \A k \in DOMAIN StreamAt(stats, p).Clients :
                  LET out == StreamAt(stats, p).Clients[k]
                  IN out.EntriesCount =
                        SumOf(Group(op.arg, StreamAt(before, p), out.ID),
                              "EntriesCount")
    /\ read =>
          /\ SameShape(stats, Decode(doc))
          /\ \A p \in StreamPositions(stats) :
                /\ SumOf(StreamAt(stats, p).Clients, "EntriesCount")
                      = Len(StreamAt(Decode(doc), p).Clients)
                /\ \A k \in DOMAIN StreamAt(stats, p).Clients :
                      StreamAt(stats, p).Clients[k].EntriesCount >= 1

\* A three-way merge of freshly decoded records ends at 3.
C3_Witness ==
    /\ AfterClientMapper
    /\ before = Decode(doc)
    /\ \E p \in StreamPositions(stats) :
          /\ Len(StreamAt(before, p).Clients) = 3
          /\ Len(StreamAt(stats, p).Clients) = 1
          /\ StreamAt(stats, p).Clients[1].EntriesCount = 3

\* The mapper sends two streams of the application to the same name.
Collides(mapper, app) ==
    \E j, k \in DOMAIN app.Streams :
        j < k /\ mapper[app.Streams[j].Name] = mapper[app.Streams[k].Name]

\* No two streams of the application have the same name.
DistinctNames(app) ==
    \A j, k \in DOMAIN app.Streams :
        j # k => app.Streams[j].Name # app.Streams[k].Name

\* The Stats with every stream name replaced by what the mapper makes of it.
Renamed(mapper, s) ==
    [s EXCEPT !.Applications =
        [i \in DOMAIN s.Applications |->
            [s.Applications[i] EXCEPT !.Streams =
                [j \in DOMAIN s.Applications[i].Streams |->
                    [s.Applications[i].Streams[j] EXCEPT !.Name = mapper[@]]]]]]

\* C4: when WithStreamMapper maps two streams of one application to the same
\* name, the error names a duplicated value of the first such application, and
\* that application's stream list is what it was before the call.
C4_CollisionLeavesApplicationUnchanged ==
    (AfterStreamMapper /\ err # Nil) =>
        \E i \in DOMAIN before.Applications :
            LET app == before.Applications[i]
            IN /\ \A h \in 1..(i - 1) : ~Collides(op.arg, before.Applications[h])
               /\ \E j, k \in DOMAIN app.Streams :
                     /\ j < k
                     /\ op.arg[app.Streams[j].Name] = op.arg[app.Streams[k].Name]
                     /\ err = Errorf(op.arg[app.Streams[k].Name])
               /\ stats.Applications[i].Streams = app.Streams

\* The test's case: stream_a and stream_b both become whoops.
C4_Witness ==
    /\ AfterStreamMapper
    /\ err = Errorf("whoops")
    /\ \E i \in DOMAIN before.Applications :
          /\ Len(before.Applications[i].Streams) = 2
          /\ before.Applications[i].Streams[1].Name = "stream_a"
          /\ before.Applications[i].Streams[2].Name = "stream_b"

\* C5: whenever WithStreamMapper returns an error, the whole Stats equals its
\* value before the call.
C5_FailedStreamMapperLeavesStatsUnchanged ==
    (AfterStreamMapper /\ err # Nil) => stats = before

\* C6: WithStreamMapper succeeds exactly when in no application the mapper
\* sends two streams to the same name; the same name in different applications
\* is no error; after a success the names within each application are distinct.
C6_SucceedsIffNoCollisionPerApplication ==
    AfterStreamMapper =>
        /\ err = Nil <=>
              \A i \in DOMAIN before.Applications :
                  ~Collides(op.arg, before.Applications[i])
        /\ err = Nil =>
              \A i \in DOMAIN stats.Applications :
                  DistinctNames(stats.Applications[i])

\* Streams of two applications were given the same name, without an error.
C6_Witness ==
    /\ AfterStreamMapper
    /\ err = Nil
    /\ \E p, q \in StreamPositions(stats) :
          /\ p[1] # q[1]
          /\ StreamAt(before, p).Name # StreamAt(before, q).Name
          /\ StreamAt(stats, p).Name = StreamAt(stats, q).Name

\* C7: when WithStreamMapper succeeds, every stream's name is the mapper applied
\* to its previous name and nothing else of the Stats has changed.
C7_SuccessRenamesOnlyNames ==
    (AfterStreamMapper /\ err = Nil) => stats = Renamed(op.arg, before)

\* The test's case: stream_a, stream_b become STREAM_A, STREAM_B; a renamed
\* stream has clients.
C7_Witness ==
    /\ AfterStreamMapper
    /\ err = Nil
    /\ \E i \in DOMAIN stats.Applications :
          /\ Len(stats.Applications[i].Streams) = 2
          /\ before.Applications[i].Streams[1].Name = "stream_a"
          /\ before.Applications[i].Streams[2].Name = "stream_b"
          /\ stats.Applications[i].Streams[1].Name = "STREAM_A"
          /\ stats.Applications[i].Streams[2].Name = "STREAM_B"
          /\ stats.Applications[i].Streams[2].Clients # <<>>

\* C8 as stated: WithStreamMapper with the identity function returns no error
\* and leaves the model unchanged, whatever the model.
C8_IdentityNeverFails ==
    (AfterStreamMapper /\ op.arg = SMIdentity) => (err = Nil /\ stats = before)

\* C8 amended: WithStreamMapper with the identity function leaves the model
\* unchanged; it returns no error exactly when no application has two streams
\* of the same name.
C8_IdentityChangesNothing ==
    (AfterStreamMapper /\ op.arg = SMIdentity) =>
        /\ stats = before
        /\ err = Nil <=>
              \A i \in DOMAIN before.Applications :
                  DistinctNames(before.Applications[i])

\* The identity function was applied to a decoded page whose second
\* application lists the name stream_a twice.
C8_Witness ==
    /\ AfterStreamMapper
    /\ op.arg = SMIdentity
    /\ before = Decode(doc)
    /\ Len(before.Applications) = 2
    /\ before.Applications[1].Streams # <<>>
    /\ ~DistinctNames(before.Applications[2])
    /\ err = Errorf("stream_a")

\* The result of the first k mutators applied in order to the decoded page.
RECURSIVE ModelAfter(_, _, _)
ModelAfter(d, muts, k) ==
    IF k = 0 THEN [s |-> Decode(d), err |-> Nil]
    ELSE Mutate(muts[k], ModelAfter(d, muts, k - 1).s)

\* C9: Unmarshal applies the mutators in the order given, each to the model the
\* previous one left; at the first that fails it stops, invokes none of the
\* later ones and returns nil and that error; if none fails it returns the
\* final model and no error.
C9_MutatorsInOrderStopAtFirstError ==
    AfterUnmarshal =>
        LET muts == op.arg
            first == {k \in DOMAIN muts :
                        /\ ModelAfter(doc, muts, k).err # Nil
                        /\ \A h \in 1..(k - 1) : ModelAfter(doc, muts, h).err = Nil}
        IN IF first = {}
           THEN /\ calls = [k \in 1..Len(muts) |-> k]
                /\ err = Nil
                /\ ret = "&s"
                /\ stats = ModelAfter(doc, muts, Len(muts)).s
           ELSE LET f == CHOOSE k \in first : TRUE
                IN /\ calls = [k \in 1..f |-> k]
                   /\ err = ModelAfter(doc, muts, f).err
                   /\ ret = "nil"

\* The first of two mutators failed and the second was not invoked.
C9_Witness ==
    /\ AfterUnmarshal
    /\ Len(op.arg) = MaxMuts
    /\ calls = <<1>>
    /\ err # Nil
    /\ ret = "nil"

\* C10: the sum of DroppedFrames over a stream's clients is the same after
\* WithClientMapper as before it, and so after any sequence of mappers it is
\* the sum over the stream's wire records.
C10_DroppedFramesSumPreserved ==
    /\ AfterClientMapper =>
          \A p \in StreamPositions(before) :
              SumOf(StreamAt(stats, p).Clients, "DroppedFrames")
                  = SumOf(StreamAt(before, p).Clients, "DroppedFrames")
    /\ read =>
          \A p \in StreamPositions(stats) :
              SumOf(StreamAt(stats, p).Clients, "DroppedFrames")
                  = SumOf(StreamAt(Decode(doc), p).Clients, "DroppedFrames")

\* The test's case, 150 + 100 = 250, on clients an earlier client mapper had
\* already renamed.
C10_Witness ==
    /\ AfterClientMapper
    /\ before # Decode(doc)
    /\ \E p \in StreamPositions(stats) :
          /\ Len(StreamAt(stats, p).Clients) < Len(StreamAt(before, p).Clients)
          /\ \E k \in DOMAIN StreamAt(stats, p).Clients :
                StreamAt(stats, p).Clients[k].DroppedFrames = 250

\* C11 as stated: a wire uptime of m decodes to floor(m / 1000) seconds.
C11_UptimeIsFloorOfMillisecondWireValue ==
    ret = "&s" => stats.Uptime = (doc.server.uptime \div 1000) * Second

\* C11: the uptime of every Stats a caller holds is the <uptime> wire value
\* taken as a number of seconds: a wire value of m decodes to exactly m
\* seconds (1500 to 1500 s, 93879 to 93879 s), nothing is divided by 1000.
C11_UptimeIsWireValueInSeconds ==
    ret = "&s" => stats.Uptime = doc.server.uptime * Second

C11_Witness ==
    /\ op.kind = "Unmarshal"
    /\ ret = "&s"
    /\ doc.server.uptime = 1500
    /\ stats.Uptime = 1500 * Second
    /\ stats.Uptime # 1 * Second

AfterCollect == op.kind = "Collect"

\* The place of stream p among all streams of s, in document order.
Ord(s, p) ==
    Cardinality({q \in StreamPositions(s) :
                    q[1] < p[1] \/ (q[1] = p[1] /\ q[2] <= p[2])})

\* The identifier of the first client that publishes, "" when none does.
FirstPublisherID(clients) ==
    IF AnyOf(clients, "Publishing")
    THEN LET first == CHOOSE k \in DOMAIN clients :
                          /\ clients[k].Publishing
                          /\ \A j \in 1..(k - 1) : ~clients[j].Publishing
         IN clients[first].ID
    ELSE ""

\* C12: every sample a successful Collect sends for a stream carries, as its
\* publisher label, the identifier of the first client of that stream (in
\* list order) whose Publishing is true, and the empty identifier when the
\* stream has no such client; it sends seven samples per stream, in order,
\* after the five of the server.
C12_PublisherIsFirstPublishingClient ==
    (AfterCollect /\ err = Nil) =>
        /\ Len(ch) = 5 + 7 * Cardinality(StreamPositions(stats))
        /\ \A p \in StreamPositions(stats) : \A n \in 1..7 :
              LET m == ch[5 + 7 * (Ord(stats, p) - 1) + n]
              IN /\ m.labelValues[1] = stats.Applications[p[1]].Name
                 /\ m.labelValues[2] = StreamAt(stats, p).Name
                 /\ m.labelValues[3] = FirstPublisherID(StreamAt(stats, p).Clients)

\* A stream with the clients [sum_a (not publishing), other_a (publishing),
\* sum_b (publishing)] was collected with the label other_a.
C12_Witness ==
    /\ AfterCollect
    /\ err = Nil
    /\ \E p \in StreamPositions(stats) :
          /\ IDsOf(StreamAt(stats, p).Clients) = <<"sum_a", "other_a", "sum_b">>
          /\ ~StreamAt(stats, p).Clients[1].Publishing
          /\ StreamAt(stats, p).Clients[2].Publishing
          /\ StreamAt(stats, p).Clients[3].Publishing
          /\ ch[5 + 7 * (Ord(stats, p) - 1) + 1].labelValues[3] = "other_a"

\* The scrape cannot get its Stats: the source gives no page, the page does
\* not decode, or one of the Exporter's mutators returns an error.
ScrapeFails ==
    \/ op.arg \in {"failed", "cut"}
    \/ \E k \in DOMAIN exporter.mutators :
          ModelAfter(doc, exporter.mutators, k).err # Nil

\* C13: a Collect whose fetch, decoding or mutator pipeline fails sends no
\* sample at all on its channel: not a part of this scrape's samples and
\* nothing of an earlier scrape.
C13_FailedScrapeSendsNothing ==
    (AfterCollect /\ ScrapeFails) => (err # Nil /\ ch = <<>>)

\* A scrape that failed on a page cut short, after one that had succeeded.
C13_Witness ==
    /\ AfterCollect
    /\ op.arg = "cut"
    /\ before.PID = 13
    /\ before.Applications # <<>>
    /\ err # Nil
    /\ ch = <<>>

\* The page has a field whose text its adapter rejects (a <built> not of the
\* layout "Jan _2 2006 15:04:05", a duration that is not an integer), or it is
\* not well-formed XML.
Malformed(d) ==
    \/ d.server.built \notin {"Jul 11 2020 22:03:37", "Jan  2 2006 15:04:05"}
    \/ d.fault \in {"uptime", "syntax"}
    \/ d.fault = "time" /\ \E k \in DOMAIN d.elements : d.elements[k].tag = "stream"
    \/ d.fault = "timestamp"
          /\ \E k \in DOMAIN d.elements : d.elements[k].tag = "client"

\* C14: Unmarshal of a malformed page returns an error and a nil *Stats, and
\* invokes none of the mutators it was given; a page that is not malformed
\* decodes, and its first mutator, if there is one, is invoked.
C14_MalformedPageFailsBeforeMutators ==
    AfterUnmarshal =>
        /\ Malformed(doc) => (err # Nil /\ ret = "nil" /\ calls = <<>>)
        /\ ~Malformed(doc) => (op.arg # <<>> => calls # <<>>)
        /\ (~Malformed(doc) /\ op.arg = <<>>) => (err = Nil /\ ret = "&s")

\* A page whose client <timestamp> is not an integer was handed to Unmarshal
\* with mutators.
C14_Witness ==
    /\ AfterUnmarshal
    /\ op.arg # <<>>
    /\ doc.fault = "timestamp"
    /\ doc.server.built = "Jul 11 2020 22:03:37"
    /\ \E k \in DOMAIN doc.elements : doc.elements[k].tag = "client"
    /\ err = <<"strconv.ParseInt: invalid syntax", "timestamp">>
    /\ ret = "nil"
    /\ calls = <<>>

\* The streams of s, and the clients of all its streams, in document order.
StreamsOf(s) ==
    [n \in 1..Cardinality(StreamPositions(s)) |->
        StreamAt(s, CHOOSE p \in StreamPositions(s) : Ord(s, p) = n)]

RECURSIVE ClientsOf(_, _)
ClientsOf(streams, n) ==
    IF n > Len(streams) THEN <<>>
    ELSE streams[n].Clients \o ClientsOf(streams, n + 1)

\* The elements of the page with the given tag, in document order.
WireRecords(d, tag) ==
    LET els == SelectSeq(d.elements, LAMBDA e : e.tag = tag)
    IN [n \in DOMAIN els |-> els[n].rec]

\* C15: in the model decoded from a page, the Active flag of every stream and
\* of every client is true exactly when its element has an <active> tag, and
\* its Publishing flag exactly when it has a <publishing> tag, whatever the
\* content of the tag (empty, "false", "0"); a missing tag gives false.
C15_FlagIsTagPresence ==
    (AfterUnmarshal /\ ~Malformed(doc)) =>
        LET streams == StreamsOf(before)
            clients == ClientsOf(streams, 1)
            ws == WireRecords(doc, "stream")
            wc == WireRecords(doc, "client")
        IN /\ Len(streams) = Len(ws)
           /\ Len(clients) = Len(wc)
           /\ \A n \in DOMAIN ws :
                 /\ streams[n].Active = (ws[n].active # NoTag)
                 /\ streams[n].Publishing = (ws[n].publishing # NoTag)
           /\ \A n \in DOMAIN wc :
                 /\ clients[n].Active = (wc[n].active # NoTag)
                 /\ clients[n].Publishing = (wc[n].publishing # NoTag)

\* A decoded page with a self-closing <publishing/>, an <active>false</active>
\* and a client without an <active> tag.
C15_Witness ==
    /\ AfterUnmarshal
    /\ ~Malformed(doc)
    /\ \E n \in DOMAIN WireRecords(doc, "client") :
          /\ WireRecords(doc, "client")[n].active = "false"
          /\ ClientsOf(StreamsOf(before), 1)[n].Active
    /\ \E n \in DOMAIN WireRecords(doc, "client") :
          /\ WireRecords(doc, "client")[n].active = NoTag
          /\ WireRecords(doc, "client")[n].publishing = ""
          /\ ~ClientsOf(StreamsOf(before), 1)[n].Active
          /\ ClientsOf(StreamsOf(before), 1)[n].Publishing

\* C16: Unmarshal runs a two-stage pipeline in the order given. With a stream
\* mapper before a client mapper, the client mapper is called with the
\* renamed stream name for every client: each stream ends with the first
\* occurrences of clientMapper(streamMapper(name), id) over its decoded
\* clients. With the client mapper first it is called with the wire name:
\* each stream ends with the first occurrences of clientMapper(name, id).
C16_ClientMapperSeesNamesOfEarlierStages ==
    (AfterUnmarshal /\ Len(op.arg) = 2 /\ err = Nil) =>
        LET m1 == op.arg[1]
            m2 == op.arg[2]
        IN /\ (m1.kind = "WithStreamMapper" /\ m2.kind = "WithClientMapper") =>
                \A p \in StreamPositions(before) :
                    LET orig == StreamAt(before, p)
                    IN /\ StreamAt(stats, p).Name = m1.mapper[orig.Name]
                       /\ IDsOf(StreamAt(stats, p).Clients) =
                             FirstOccurrences(
                                 [k \in DOMAIN orig.Clients |->
                                     m2.mapper[<<m1.mapper[orig.Name],
                                                 orig.Clients[k].ID>>]])
           /\ (m1.kind = "WithClientMapper" /\ m2.kind = "WithStreamMapper") =>
                \A p \in StreamPositions(before) :
                    LET orig == StreamAt(before, p)
                    IN /\ StreamAt(stats, p).Name = m2.mapper[orig.Name]
                       /\ IDsOf(StreamAt(stats, p).Clients) =
                             FirstOccurrences(MappedIDs(m1.mapper, orig))

\* Upper-casing the names and then merging the clients of STREAM_A: the
\* clients of the wire stream stream_a were merged into one.
C16_Witness ==
    /\ AfterUnmarshal
    /\ op.arg = <<StreamMutator(SMUpper), ClientMutator(CMUpperOnly)>>
    /\ err = Nil
    /\ \E p \in StreamPositions(before) :
          /\ StreamAt(before, p).Name = "stream_a"
          /\ Len(FirstOccurrences(IDsOf(StreamAt(before, p).Clients))) > 1
          /\ StreamAt(stats, p).Name = "STREAM_A"
          /\ IDsOf(StreamAt(stats, p).Clients) = <<"sum">>

\* The first application of s in which the mapper makes two names collide.
FirstCollision(mapper, s) ==
    CHOOSE i \in DOMAIN s.Applications :
        /\ Collides(mapper, s.Applications[i])
        /\ \A h \in 1..(i - 1) : ~Collides(mapper, s.Applications[h])

\* C17: when a stage of Unmarshal's pipeline fails on a name collision, the
\* Stats keeps what the earlier stages made of it (nothing is rolled back):
\* the application in which the names collide, and every later one, is as
\* the earlier stages left it, untouched by the failing stage; the
\* applications before it are as the earlier stages left them but for the
\* names the failing stage gave their streams; the server fields are those
\* the earlier stages left. Unmarshal returns nil and the error.
C17_FailedStageKeepsEarlierStages ==
    (AfterUnmarshal /\ err # Nil) =>
        LET f == Len(calls)
            prev == ModelAfter(doc, op.arg, f - 1).s
            mapper == op.arg[f].mapper
        IN /\ f >= 1
           /\ ret = "nil"
           /\ op.arg[f].kind = "WithStreamMapper"
           /\ \E i \in DOMAIN prev.Applications : Collides(mapper, prev.Applications[i])
           /\ LET i == FirstCollision(mapper, prev)
              IN /\ [stats EXCEPT !.Applications = <<>>]
                       = [prev EXCEPT !.Applications = <<>>]
                 /\ Len(stats.Applications) = Len(prev.Applications)
                 /\ \A h \in DOMAIN prev.Applications :
                       stats.Applications[h] =
                           IF h < i THEN Renamed(mapper, prev).Applications[h]
                           ELSE prev.Applications[h]

\* Upper-casing succeeded, then mapping every name to whoops failed on an
\* application with two streams: its streams keep the upper-case names.
C17_Witness ==
    /\ AfterUnmarshal
    /\ op.arg = <<StreamMutator(SMUpper), StreamMutator(SMWhoops)>>
    /\ err = Errorf("whoops")
    /\ calls = <<1, 2>>
    /\ stats # before
    /\ \E i \in DOMAIN stats.Applications :
          /\ Len(before.Applications[i].Streams) = 2
          /\ before.Applications[i].Streams[1].Name = "stream_a"
          /\ stats.Applications[i].Streams[1].Name = "STREAM_A"
          /\ stats.Applications[i].Streams[2].Name = "STREAM_B"

\* C18: WithClientMapper neither makes nor loses a publisher: after it a
\* stream has a client with Publishing true exactly when it had one before,
\* so the publisher label of the stream is non-empty after exactly when it
\* was before.
C18_PublisherPresencePreserved ==
    AfterClientMapper =>
        /\ SameShape(stats, before)
        /\ \A p \in StreamPositions(before) :
              /\ AnyOf(StreamAt(stats, p).Clients, "Publishing")
                    = AnyOf(StreamAt(before, p).Clients, "Publishing")
              /\ (Publisher(StreamAt(stats, p).Clients, 1, ZeroClient).ID # "")
                    = (Publisher(StreamAt(before, p).Clients, 1, ZeroClient).ID # "")

\* A publishing client was merged into one whose first record did not
\* publish (and one whose first record did, the other way round).
C18_Witness ==
    /\ AfterClientMapper
    /\ \E p \in StreamPositions(before) :
          LET old == StreamAt(before, p).Clients
              new == StreamAt(stats, p).Clients
          IN /\ Len(old) >= 2
             /\ Len(new) = 1
             /\ ~old[1].Publishing
             /\ old[Len(old)].Publishing
             /\ new[1].Publishing
             /\ new[1].ID = op.arg[<<StreamAt(before, p).Name, old[1].ID>>]

\* The Stats with every client list emptied.
WithoutClients(s) ==
    [s EXCEPT !.Applications =
        [i \in DOMAIN s.Applications |->
            [s.Applications[i] EXCEPT !.Streams =
                [j \in DOMAIN s.Applications[i].Streams |->
                    [s.Applications[i].Streams[j] EXCEPT !.Clients = <<>>]]]]]

\* C19: WithClientMapper returns no error and changes nothing but the client
\* lists: the server fields, the applications and their order, the streams
\* and their order, and every field of a stream other than Clients, its
\* NumClients among them, are as before, also when clients were merged.
C19_ClientMapperChangesOnlyClientLists ==
    AfterClientMapper =>
        /\ err = Nil
        /\ WithoutClients(stats) = WithoutClients(before)

\* Clients were merged, and NumClients still is the wire count.
C19_Witness ==
    /\ AfterClientMapper
    /\ err = Nil
    /\ \E p \in StreamPositions(before) :
          /\ Len(StreamAt(stats, p).Clients) < Len(StreamAt(before, p).Clients)
          /\ StreamAt(stats, p).NumClients = 4
          /\ StreamAt(stats, p).NumClients # Len(StreamAt(stats, p).Clients)

====
